---- MODULE Spec2Model ----
(***************************************************************************)
(* A model of Proxy-bonus.py, a caching forward HTTP proxy with prefetch.  *)
(*                                                                         *)
(* Text is modelled at two levels.  URLs are sequences of one-character    *)
(* strings, so that splitting and integer parsing are computed as the code *)
(* computes them.  HTTP messages and cache files are sequences of tokens:  *)
(* a status line, header lines, line terminators (CRLF, LF) and a body.    *)
(***************************************************************************)
EXTENDS Integers, Sequences, FiniteSets, TLC

VARIABLES
    rUrl,       \* Origin Resolver: the url argument of extract_server_info
    rOut,       \* Origin Resolver: the returned tuple, or NoResult
    fHeaders,   \* Freshness Evaluator: the headers argument of is_cache_valid
    fNow,       \* Freshness Evaluator: the wall clock read by the call
    fOut,       \* Freshness Evaluator: "none", or the outcome of the call
    clock,      \* the proxy: wall clock, in seconds
    files,      \* the proxy: the cache directory, file name -> file content
    handlers,   \* the proxy: one handle_client_request thread per connection
    proxy_socket, \* the proxy: the listening socket of main's accept loop
    tasks,      \* the proxy: the prefetch_resource threads, by task identity
    lValues,    \* Prefetch Scheduler: the attribute values found in the page
    lBase,      \* Prefetch Scheduler: the base_url argument
    lOut        \* Prefetch Scheduler: NoResult, or the threads it started

rvars == <<rUrl, rOut>>
fvars == <<fHeaders, fNow, fOut>>
pvars == <<clock, files, handlers>>
svars == <<proxy_socket, tasks>>
lvars == <<lValues, lBase, lOut>>
vars == <<rUrl, rOut, fHeaders, fNow, fOut, clock, files, handlers,
          proxy_socket, tasks, lValues, lBase, lOut>>

(***************************************************************************)
(* Bounds of the model.                                                    *)
(***************************************************************************)
MaxUrlLen == 4
MaxTime == 2          \* clock readings and dates given to the evaluator: 0..MaxTime
MaxClock == 1         \* the proxy's clock runs over 0..MaxClock seconds
MaxAge == 2           \* max-age directives range over 0..MaxAge
MaxDirectives == 2    \* directives in one Cache-Control value
NumClients == 2       \* client connections accepted by the proxy

NoResult == [kind |-> "none"]

(***************************************************************************)
(* String helpers (Python str methods) over sequences of characters.       *)
(***************************************************************************)
Digits == <<"0", "1", "2", "3", "4", "5", "6", "7", "8", "9">>

IsDigit(c) == \E i \in 1..10 : Digits[i] = c

DigitVal(c) == (CHOOSE i \in 1..10 : Digits[i] = c) - 1

\* s[i..] , 1-based, empty when i > Len(s)
Drop(s, i) == SubSeq(s, i, Len(s))

\* s[..i-1]
Take(s, i) == SubSeq(s, 1, i - 1)

\* does pat occur in s at position i
MatchAt(s, pat, i) ==
    /\ i >= 1
    /\ i + Len(pat) - 1 =< Len(s)
    /\ SubSeq(s, i, i + Len(pat) - 1) = pat

\* pat in s
Contains(s, pat) == \E i \in 1..(Len(s) + 1) : MatchAt(s, pat, i)

\* index of the first occurrence of pat in s (s.find(pat) + 1); 0 if none
Find(s, pat) ==
    IF Contains(s, pat)
    THEN CHOOSE i \in 1..(Len(s) + 1) :
            /\ MatchAt(s, pat, i)
            /\ \A j \in 1..(i - 1) : ~MatchAt(s, pat, j)
    ELSE 0

\* s.split(pat, 1)[0]
SplitHead(s, pat) == IF Contains(s, pat) THEN Take(s, Find(s, pat)) ELSE s

\* s.split(pat, 1)[1], defined when pat in s
SplitTail(s, pat) == Drop(s, Find(s, pat) + Len(pat))

StartsWith(s, pat) == MatchAt(s, pat, 1)

(***************************************************************************)
(* int(port_str): an optional sign followed by one or more decimal digits. *)
(***************************************************************************)
AllDigits(s) == Len(s) >= 1 /\ \A i \in 1..Len(s) : IsDigit(s[i])

RECURSIVE DigitsValue(_)
DigitsValue(s) ==
    IF Len(s) = 0 THEN 0
    ELSE 10 * DigitsValue(Take(s, Len(s))) + DigitVal(s[Len(s)])

IntParses(s) ==
    \/ AllDigits(s)
    \/ Len(s) >= 2 /\ s[1] \in {"-", "+"} /\ AllDigits(Drop(s, 2))

IntValue(s) ==
    IF AllDigits(s) THEN DigitsValue(s)
    ELSE IF s[1] = "-" THEN 0 - DigitsValue(Drop(s, 2))
    ELSE DigitsValue(Drop(s, 2))

DEFAULT_PORT == 80

(***************************************************************************)
(* extract_server_info(url) -> (hostname, port, path)                      *)
(***************************************************************************)
StripScheme(url) ==
    IF Contains(url, <<":", "/", "/">>) THEN SplitTail(url, <<":", "/", "/">>) ELSE url

ServerInfoOf(u) == IF Contains(u, <<"/">>) THEN SplitHead(u, <<"/">>) ELSE u

PathOf(u) == IF Contains(u, <<"/">>) THEN <<"/">> \o SplitTail(u, <<"/">>) ELSE <<"/">>

PortOf(server_info) ==
    IF Contains(server_info, <<":">>)
    THEN LET port_str == SplitTail(server_info, <<":">>)
         IN  IF IntParses(port_str) THEN IntValue(port_str) ELSE DEFAULT_PORT
    ELSE DEFAULT_PORT

HostOf(server_info) ==
    IF Contains(server_info, <<":">>) THEN SplitHead(server_info, <<":">>) ELSE server_info

extract_server_info(url) ==
    LET u == StripScheme(url)
        server_info == ServerInfoOf(u)
    IN  [kind |-> "target",
         hostname |-> HostOf(server_info),
         port |-> PortOf(server_info),
         path |-> PathOf(u)]


(***************************************************************************)
(* Header mappings.  A dict of headers is a function on HeaderNames whose  *)
(* value is Absent for a name that is not a key.  Values are records:      *)
(*   Expires          a date (zone-aware or naive, as parsedate_to_datetime*)
(*                    returns it) or text that is not a date               *)
(*   Cache-Control    a sequence of directives                             *)
(*   cache-timestamp  a number (what float() accepts) or other text        *)
(*   Content-Type     a media type                                         *)
(***************************************************************************)
HeaderNames == {"Expires", "Cache-Control", "cache-timestamp", "Content-Type"}

Absent == [kind |-> "absent"]

NoHeaders == [n \in HeaderNames |-> Absent]

Has(headers, name) == headers[name].kind # "absent"

ExpiresValues ==
    {[kind |-> "text"]}
        \cup {[kind |-> "date", tz |-> z, t |-> t] : z \in {"aware", "naive"}, t \in 0..MaxTime}

Directives ==
    {[d |-> "no-cache", n |-> 0], [d |-> "no-store", n |-> 0], [d |-> "public", n |-> 0],
     [d |-> "max-age=x", n |-> 0]}
        \cup {[d |-> "max-age", n |-> k] : k \in 0..MaxAge}

RECURSIVE DirectiveSeqs(_)
DirectiveSeqs(n) ==
    IF n = 0 THEN {<<>>}
    ELSE LET shorter == DirectiveSeqs(n - 1)
         IN  shorter \cup {Append(s, d) : s \in {t \in shorter : Len(t) = n - 1}, d \in Directives}

CacheControlValues == {[kind |-> "cc", ds |-> s] : s \in DirectiveSeqs(MaxDirectives)}

TimestampValues == {[kind |-> "text"]} \cup {[kind |-> "num", t |-> t] : t \in 0..MaxTime}

ContentTypeValues == {[kind |-> "ctype", v |-> v] : v \in {"text/html", "text/plain"}}

MkHeaders(e, c, ts, ct) ==
    [n \in HeaderNames |->
        IF n = "Expires" THEN e
        ELSE IF n = "Cache-Control" THEN c
        ELSE IF n = "cache-timestamp" THEN ts
        ELSE ct]

HeaderMaps ==
    {MkHeaders(e, c, ts, ct) :
        e \in ExpiresValues \cup {Absent}, c \in CacheControlValues \cup {Absent},
        ts \in TimestampValues \cup {Absent}, ct \in ContentTypeValues \cup {Absent}}

(***************************************************************************)
(* is_cache_valid(headers), with the clock reading passed as now.  The     *)
(* outcome is "True", "False", or "ValueError" when float() raises: that   *)
(* call is outside every try block of the function.                        *)
(***************************************************************************)
\* email.utils.parsedate_to_datetime raises TypeError/ValueError on text that is not a date
DateParses(v) == v.kind = "date"

\* current_time < expires_time, inside the try: comparing the zone-aware
\* current time with a naive datetime raises TypeError, which is caught
ExpiresVerdict(v, now) ==
    IF ~DateParses(v) THEN "False"
    ELSE IF v.tz = "naive" THEN "False"
    ELSE IF now < v.t THEN "True" ELSE "False"

\* 'no-cache' in cache_control or 'no-store' in cache_control
NoCacheOrNoStore_only_no_cache(cc) == \E i \in 1..Len(cc.ds) : cc.ds[i].d = "no-cache"

NoCacheOrNoStore(cc) == \E i \in 1..Len(cc.ds) : cc.ds[i].d \in {"no-cache", "no-store"}

\* re.search(r'max-age=(\d+)', cache_control): the first directive with digits
MaxAgeMatches(cc) == \E i \in 1..Len(cc.ds) : cc.ds[i].d = "max-age"

MaxAgeOf(cc) ==
    LET i == CHOOSE i \in 1..Len(cc.ds) :
                /\ cc.ds[i].d = "max-age"
                /\ \A j \in 1..(i - 1) : cc.ds[j].d # "max-age"
    IN  cc.ds[i].n

\* (current_time - cache_time) < max_age
AgeWithin_inclusive(now, cache_time, max_age) == (now - cache_time) =< max_age

AgeWithin(now, cache_time, max_age) == (now - cache_time) < max_age

MaxAgeVerdict(headers, now) ==
    LET cc == headers["Cache-Control"]
        ts == headers["cache-timestamp"]
    IN  IF NoCacheOrNoStore(cc) THEN "False"
        ELSE IF MaxAgeMatches(cc) /\ Has(headers, "cache-timestamp")
        THEN IF ts.kind # "num" THEN "ValueError"
             ELSE IF AgeWithin(now, ts.t, MaxAgeOf(cc)) THEN "True" ELSE "False"
        ELSE "False"

DefaultVerdict_true == "True"

DefaultVerdict == "False"

is_cache_valid(headers, now) ==
    IF Has(headers, "Expires") THEN ExpiresVerdict(headers["Expires"], now)
    ELSE IF Has(headers, "Cache-Control") THEN MaxAgeVerdict(headers, now)
    ELSE DefaultVerdict

(***************************************************************************)
(* HTTP messages and cache files as token sequences.                       *)
(***************************************************************************)
StatusLine == [k |-> "status"]

CRLF == [k |-> "CRLF"]

LF == [k |-> "LF"]

HeaderLine(name, value) == [k |-> "header", name |-> name, value |-> value]

\* a body: utf8 is FALSE for bytes that do not decode as UTF-8 (an image);
\* links are the attribute values the href/src patterns find in it
BodyOf(utf8, links) == [k |-> "body", utf8 |-> utf8, links |-> links]

HeadBodySeparator == <<CRLF, CRLF>>

(***************************************************************************)
(* generate_cache_filename(url)                                            *)
(***************************************************************************)
CACHE_DIR == <<"proxy_cache/">>

AlnumChars ==
    {"a", "b", "c", "d", "e", "f", "g", "h", "i", "j", "k", "l", "m", "n", "o", "p", "q",
     "r", "s", "t", "u", "v", "w", "x", "y", "z", "A", "B", "C", "D", "E", "F", "G", "H",
     "I", "J", "K", "L", "M", "N", "O", "P", "Q", "R", "S", "T", "U", "V", "W", "X", "Y",
     "Z", "0", "1", "2", "3", "4", "5", "6", "7", "8", "9"}

generate_cache_filename(url) ==
    CACHE_DIR \o [i \in 1..Len(url) |-> IF url[i] \in AlnumChars THEN url[i] ELSE "_"]

(***************************************************************************)
(* Reading a cache file.  open(name, 'r') and open(name, 'r+') read in     *)
(* text mode with universal newlines: every \r\n of the file reaches the   *)
(* program as \n.  Bytes that are not UTF-8 make read() raise.             *)
(***************************************************************************)
ReadText_binary(data) == data

ReadText(data) == [i \in 1..Len(data) |-> IF data[i] = CRLF THEN LF ELSE data[i]]

Decodes(data) == \A i \in 1..Len(data) : data[i].k = "body" => data[i].utf8

\* content.split('\r\n\r\n', 1) has two parts
HasSeparator(content) == Contains(content, HeadBodySeparator)

\* the lines of header_section.split('\r\n')[1:] that contain ': ', as a
\* mapping in which the last line of a name wins
RECURSIVE ParseHeaderLines(_, _)
ParseHeaderLines(section, headers) ==
    IF Len(section) = 0 THEN headers
    ELSE LET line == SplitHead(section, <<CRLF>>)
             rest == IF Contains(section, <<CRLF>>) THEN SplitTail(section, <<CRLF>>) ELSE <<>>
             next == IF Len(line) = 1 /\ line[1].k = "header"
                     THEN [headers EXCEPT ![line[1].name] = line[1].value]
                     ELSE headers
         IN  ParseHeaderLines(rest, next)

SkipFirstLine(section) ==
    IF Contains(section, <<CRLF>>) THEN SplitTail(section, <<CRLF>>) ELSE <<>>

extract_headers_from_cache(data) ==
    IF ~Decodes(data) THEN NoHeaders
    ELSE LET content == ReadText(data)
         IN  IF ~HasSeparator(content) THEN NoHeaders
             ELSE ParseHeaderLines(SkipFirstLine(SplitHead(content, HeadBodySeparator)), NoHeaders)

(***************************************************************************)
(* The second pass of a cache write (open(name, 'r+')): when the text read *)
(* back splits in two, the file is rewritten from offset 0 with a          *)
(* cache-timestamp line appended to the head.                              *)
(***************************************************************************)
TimestampLine(now) == HeaderLine("cache-timestamp", [kind |-> "num", t |-> now])

AddTimestamp(data, now) ==
    LET content == ReadText(data)
    IN  IF HasSeparator(content)
        THEN SplitHead(content, HeadBodySeparator) \o <<CRLF, TimestampLine(now)>>
                \o HeadBodySeparator \o SplitTail(content, HeadBodySeparator)
        ELSE data

ResolveIdle == rUrl = <<>> /\ rOut = NoResult

FreshIdle == fHeaders = NoHeaders /\ fNow = 0 /\ fOut = "none"

LinksIdle == lValues = <<>> /\ lBase = <<>> /\ lOut = NoResult

\* main is in its accept loop and no prefetch thread has been started
ServerIdle == proxy_socket = "listening" /\ tasks = <<>>

(***************************************************************************)
(* The proxy: client handlers over a shared cache directory.               *)
(***************************************************************************)
Clients == 1..NumClients

HTTP_PREFIX == <<"h", "t", "t", "p", ":", "/", "/">>

\* str(port)
RECURSIVE IntToStr(_)
IntToStr(n) ==
    IF n < 0 THEN <<"-">> \o IntToStr(0 - n)
    ELSE IF n < 10 THEN <<Digits[n + 1]>>
    ELSE IntToStr(n \div 10) \o <<Digits[(n % 10) + 1]>>

\* the request targets clients ask for
Targets == {HTTP_PREFIX \o <<"a", "/", "x">>, <<"b">>}

\* lines 289-291: a leading http:// is cut off the target
RequestUrl(target) ==
    IF StartsWith(target, HTTP_PREFIX) THEN Drop(target, Find(target, <<":", "/", "/">>) + 3)
    ELSE target

CacheFileOf(target) == generate_cache_filename(RequestUrl(target))

\* f"http://{hostname}:{port}{path}"
FullUrl(target) ==
    LET info == extract_server_info(RequestUrl(target))
    IN  HTTP_PREFIX \o info.hostname \o <<":">> \o IntToStr(info.port) \o info.path

MaxAgeControl == [kind |-> "cc", ds |-> <<[d |-> "max-age", n |-> MaxAge]>>]

HtmlType == [kind |-> "ctype", v |-> "text/html"]

PlainType == [kind |-> "ctype", v |-> "text/plain"]

\* the href and src values of the HTML page: l twice and /l
PageLinks == <<<<"l">>, <<"/", "l">>, <<"l">>>>

\* what an origin may answer: a cacheable HTML page, a page without any
\* freshness header, an image, and nothing at all
FreshPage ==
    <<StatusLine, CRLF, HeaderLine("Cache-Control", MaxAgeControl), CRLF,
      HeaderLine("Content-Type", HtmlType), CRLF, CRLF, BodyOf(TRUE, PageLinks)>>

PlainPage ==
    <<StatusLine, CRLF, HeaderLine("Content-Type", PlainType), CRLF, CRLF, BodyOf(TRUE, <<>>)>>

Image ==
    <<StatusLine, CRLF, HeaderLine("Cache-Control", MaxAgeControl), CRLF, CRLF, BodyOf(FALSE, <<>>)>>

OriginResponses == {FreshPage, PlainPage, Image, <<>>}

NoPrefetch == [kind |-> "none"]

\* a handler's record holds the locals of handle_client_request, the state of
\* its two sockets, what the client has received (sent), how the handler
\* ended (outcome), and, between the receipt of the request and the cache
\* lookup, which handlers had finished when the request was received
\* (finished_before, a history field); failed_at names the call that raised
NewHandler ==
    [pc |-> "accept", request |-> <<>>, cache_exists |-> FALSE, use_cache |-> FALSE,
     response |-> <<>>, sent |-> <<>>, client_socket |-> "open", server_socket |-> "none",
     outcome |-> "", failed_at |-> "", prefetch |-> NoPrefetch, finished_before |-> {}]

\* finally: client_socket.close()
Finally_leaves_open(h) == [h EXCEPT !.pc = "done"]

Finally(h) == [h EXCEPT !.pc = "done", !.client_socket = "closed"]

\* except Exception: the error is printed, the locals are dropped
Raise_answers_client(h) ==
    Finally([h EXCEPT !.outcome = "error", !.response = <<>>, !.cache_exists = FALSE,
                      !.finished_before = {}, !.sent = <<StatusLine>>])

Raise(h) ==
    Finally([h EXCEPT !.outcome = "error", !.response = <<>>, !.cache_exists = FALSE,
                      !.finished_before = {}])

RaiseAt(h, call) == [Raise(h) EXCEPT !.failed_at = call]

\* client_socket.sendall raises: nothing was delivered, or a proper prefix of
\* the data (the model keeps the shortest non-empty prefix)
PartialSends(data) == IF Len(data) > 1 THEN {<<>>, SubSeq(data, 1, 1)} ELSE {<<>>}

\* lines 367-381 and 318-330: threading.Thread(target=prefetch_resources, ...)
BodyPartOf(data) == SplitTail(data, HeadBodySeparator)

PrefetchCall(data, target) ==
    [kind |-> "prefetch_resources", html_content |-> BodyPartOf(data), base_url |-> FullUrl(target)]

\* 'Content-Type: text/html' in headers_str, on the bytes of the response
ResponseIsHtml(response) ==
    /\ HasSeparator(response)
    /\ Contains(SplitHead(response, HeadBodySeparator), <<HeaderLine("Content-Type", HtmlType)>>)

\* 'text/html' in cache_headers.get('Content-Type', '')
CachedIsHtml(cache_headers, data) ==
    /\ Has(cache_headers, "Content-Type")
    /\ cache_headers["Content-Type"] = HtmlType
    /\ HasSeparator(data)

Init ==
    /\ clock = 0
    /\ files = <<>>
    /\ handlers = [c \in Clients |-> NewHandler]
    /\ ResolveIdle
    /\ FreshIdle
    /\ LinksIdle
    /\ ServerIdle

\* lines 277-286: the request is received and its first line parsed
Receive(c) ==
    /\ handlers[c].pc = "accept"
    /\ \/ \E target \in Targets :
             handlers' = [handlers EXCEPT ![c] =
                             [@ EXCEPT !.pc = "check_cache", !.request = target,
                                       !.finished_before =
                                           {o \in Clients : handlers[o].pc = "done"}]]
       \/ \* an empty first line: close and return, then the finally clause
          handlers' = [handlers EXCEPT ![c] =
                          Finally([@ EXCEPT !.client_socket = "closed", !.outcome = "empty"])]
       \/ \* recv or the parse of the line raises
          handlers' = [handlers EXCEPT ![c] = RaiseAt(@, "request")]
    /\ UNCHANGED <<clock, files, rvars, fvars, lvars, svars>>

\* lines 300-330: the cache lookup, and the answer from the cache on a hit
CheckCache(c) ==
    LET h == [handlers[c] EXCEPT !.finished_before = {}]
        cache_filename == CacheFileOf(h.request)
    IN  /\ h.pc = "check_cache"
        /\ IF cache_filename \notin DOMAIN files
           THEN handlers' = [handlers EXCEPT ![c] = [h EXCEPT !.pc = "fetch"]]
           ELSE LET cache_headers == extract_headers_from_cache(files[cache_filename])
                    verdict == is_cache_valid(cache_headers, clock)
                    cache_content == files[cache_filename]
                IN  IF verdict = "ValueError"
                    THEN handlers' = [handlers EXCEPT ![c] = RaiseAt(h, "lookup")]
                    ELSE IF verdict = "False"
                    THEN handlers' = [handlers EXCEPT ![c] =
                                         [h EXCEPT !.pc = "fetch", !.cache_exists = TRUE]]
                    ELSE \/ handlers' = [handlers EXCEPT ![c] =
                                Finally([h EXCEPT !.use_cache = TRUE, !.sent = cache_content,
                                                  !.outcome = "cache",
                                                  !.prefetch =
                                                      IF CachedIsHtml(cache_headers, cache_content)
                                                      THEN PrefetchCall(cache_content, h.request)
                                                      ELSE NoPrefetch])]
                         \/ \* sendall to the client raises
                            \E partial \in PartialSends(cache_content) :
                               handlers' = [handlers EXCEPT ![c] =
                                   RaiseAt([h EXCEPT !.use_cache = TRUE, !.sent = partial], "relay")]
        /\ UNCHANGED <<clock, files, rvars, fvars, lvars, svars>>

\* lines 334-349: connect to the origin, forward, read to end of stream, relay
Fetch(c) ==
    LET h == handlers[c]
    IN  /\ h.pc = "fetch"
        /\ \/ \* connect raises: no connection was opened
              handlers' = [handlers EXCEPT ![c] = RaiseAt(h, "connect")]
           \/ \* sendall or recv on the origin connection raises
              handlers' = [handlers EXCEPT ![c] =
                  RaiseAt([h EXCEPT !.server_socket = "open"], "origin")]
           \/ \E response \in OriginResponses :
                 \/ handlers' = [handlers EXCEPT ![c] =
                        [h EXCEPT !.pc = "open_cache", !.server_socket = "open",
                                  !.cache_exists = FALSE,
                                  !.response = response, !.sent = response]]
                 \/ \* sendall to the client raises
                    \E partial \in PartialSends(response) :
                       handlers' = [handlers EXCEPT ![c] =
                           RaiseAt([h EXCEPT !.server_socket = "open", !.sent = partial], "relay")]
        /\ UNCHANGED <<clock, files, rvars, fvars, lvars, svars>>

\* line 352: open(cache_filename, 'wb') creates or truncates the file
WriteFile(fs, name, data) == [n \in DOMAIN fs \cup {name} |-> IF n = name THEN data ELSE fs[n]]

OpenCache(c) ==
    LET h == handlers[c]
    IN  /\ h.pc = "open_cache"
        /\ \/ /\ files' = WriteFile(files, CacheFileOf(h.request), <<>>)
              /\ handlers' = [handlers EXCEPT ![c] = [h EXCEPT !.pc = "write_cache"]]
           \/ \* open raises (OSError)
              /\ handlers' = [handlers EXCEPT ![c] = RaiseAt(h, "open")]
              /\ UNCHANGED files
        /\ UNCHANGED <<clock, rvars, fvars, lvars, svars>>

\* line 353: f.write(response), flushed when the with block closes the file
WriteCache(c) ==
    LET h == handlers[c]
    IN  /\ h.pc = "write_cache"
        /\ files' = WriteFile(files, CacheFileOf(h.request), h.response)
        /\ handlers' = [handlers EXCEPT ![c] = [h EXCEPT !.pc = "stamp"]]
        /\ UNCHANGED <<clock, rvars, fvars, lvars, svars>>

\* lines 356-383: the timestamp pass, the prefetch hand-off, server_socket.close()
StampCache(c) ==
    LET h == handlers[c]
        cache_filename == CacheFileOf(h.request)
    IN  /\ h.pc = "stamp"
        /\ IF ~Decodes(files[cache_filename])
           THEN \* f.read() raises UnicodeDecodeError
                /\ handlers' = [handlers EXCEPT ![c] = RaiseAt(h, "decode")]
                /\ UNCHANGED files
           ELSE /\ files' = WriteFile(files, cache_filename, AddTimestamp(files[cache_filename], clock))
                /\ handlers' = [handlers EXCEPT ![c] =
                       Finally([h EXCEPT !.server_socket = "closed", !.outcome = "relayed",
                                         !.prefetch = IF ResponseIsHtml(h.response)
                                                      THEN PrefetchCall(h.response, h.request)
                                                      ELSE NoPrefetch])]
        /\ UNCHANGED <<clock, rvars, fvars, lvars, svars>>

Tick ==
    /\ clock < MaxClock
    /\ clock' = clock + 1
    /\ UNCHANGED <<files, handlers, rvars, fvars, lvars, svars>>

Next ==
    \/ \E c \in Clients : Receive(c)
    \/ \E c \in Clients : CheckCache(c)
    \/ \E c \in Clients : Fetch(c)
    \/ \E c \in Clients : OpenCache(c)
    \/ \E c \in Clients : WriteCache(c)
    \/ \E c \in Clients : StampCache(c)
    \/ Tick

Spec == Init /\ [][Next]_vars

(***************************************************************************)
(* Specification of the Origin Resolver on its own: every target of at     *)
(* most MaxUrlLen characters over UrlChars is resolved once.               *)
(***************************************************************************)
UrlChars == {"a", ":", "/", "0", "8", "-"}

RECURSIVE StringsUpTo(_)
StringsUpTo(n) ==
    IF n = 0 THEN {<<>>}
    ELSE LET shorter == StringsUpTo(n - 1)
         IN  shorter \cup {Append(s, c) : s \in {t \in shorter : Len(t) = n - 1}, c \in UrlChars}


ResolveInit ==
    /\ rUrl \in StringsUpTo(MaxUrlLen)
    /\ rOut = NoResult
    /\ FreshIdle
    /\ LinksIdle
    /\ ServerIdle
    /\ clock = 0 /\ files = <<>> /\ handlers = [c \in Clients |-> NewHandler]

Resolve ==
    /\ rOut = NoResult
    /\ rOut' = extract_server_info(rUrl)
    /\ UNCHANGED <<rUrl, fvars, pvars, lvars, svars>>

SpecResolve == ResolveInit /\ [][Resolve]_vars

(***************************************************************************)
(* Specification of the Freshness Evaluator on its own: every header       *)
(* mapping of HeaderMaps is evaluated once at every clock reading.         *)
(***************************************************************************)
FreshInit ==
    /\ fHeaders \in HeaderMaps
    /\ fNow \in 0..MaxTime
    /\ fOut = "none"
    /\ ResolveIdle
    /\ LinksIdle
    /\ ServerIdle
    /\ clock = 0 /\ files = <<>> /\ handlers = [c \in Clients |-> NewHandler]

Evaluate ==
    /\ fOut = "none"
    /\ fOut' = is_cache_valid(fHeaders, fNow)
    /\ UNCHANGED <<fHeaders, fNow, rvars, pvars, lvars, svars>>

SpecFresh == FreshInit /\ [][Evaluate]_vars

(***************************************************************************)
(* The Prefetch Scheduler: prefetch_resources(html_content, base_url).     *)
(* urlparse is modelled on the characters of the model's URLs: lower-case  *)
(* letters, digits and : / # (no brackets, blanks or control characters).  *)
(***************************************************************************)
MaxLinks == 2         \* attribute values found in one page

Letters ==
    {"a", "b", "c", "d", "e", "f", "g", "h", "i", "j", "k", "l", "m", "n", "o", "p", "q",
     "r", "s", "t", "u", "v", "w", "x", "y", "z"}

\* urllib.parse.scheme_chars
SchemeChars == AlnumChars \cup {"+", "-", "."}

\* urlsplit: the position of the colon that ends the scheme, 0 if the url has
\* no scheme
SchemeEnd(url) ==
    LET i == Find(url, <<":">>)
    IN  IF i > 1 /\ url[1] \in Letters /\ (\A j \in 1..(i - 1) : url[j] \in SchemeChars)
        THEN i ELSE 0

\* urlparse(url).scheme
UrlScheme(url) == Take(url, SchemeEnd(url))

\* _splitnetloc(url, 2): up to the first of / ? #
NetlocOfRest(rest) ==
    LET ends == {i \in 3..Len(rest) : rest[i] \in {"/", "?", "#"}}
        delim == IF ends = {} THEN Len(rest) + 1
                 ELSE CHOOSE i \in ends : \A j \in ends : i =< j
    IN  SubSeq(rest, 3, delim - 1)

\* urlparse(url).netloc
UrlNetloc(url) ==
    LET rest == Drop(url, SchemeEnd(url) + 1)
    IN  IF StartsWith(rest, <<"/", "/">>) THEN NetlocOfRest(rest) ELSE <<>>

JAVASCRIPT == <<"j", "a", "v", "a", "s", "c", "r", "i", "p", "t", ":">>

HTTP == <<"h", "t", "t", "p">>

\* list(set(hrefs + srcs)): each value once.  The order of a set is
\* arbitrary; the threads are started in that order and share nothing, and
\* the model keeps the order of first occurrence.
all_resources_with_duplicates(values) == values

RECURSIVE all_resources(_)
all_resources(values) ==
    IF Len(values) = 0 THEN <<>>
    ELSE LET rest == all_resources(Take(values, Len(values)))
             last == values[Len(values)]
         IN  IF \E i \in 1..Len(rest) : rest[i] = last THEN rest ELSE Append(rest, last)

\* line 140: the values no thread is started for
IsSkipped(resource) ==
    \/ StartsWith(resource, JAVASCRIPT)
    \/ resource = <<"#">>
    \/ resource = <<>>

\* '/'.join(base_url.split('/')[:-1]) + '/'
BasePath(base_url) ==
    LET slashes == {i \in 1..Len(base_url) : base_url[i] = "/"}
    IN  IF slashes = {} THEN <<"/">>
        ELSE SubSeq(base_url, 1, CHOOSE i \in slashes : \A j \in slashes : j =< i)

\* lines 143-157: the first case that matches decides
ResourceUrl_root_first(resource, base_url) ==
    LET protocol == IF UrlScheme(base_url) # <<>> THEN UrlScheme(base_url) ELSE HTTP
        base_hostname == UrlNetloc(base_url)
    IN  IF StartsWith(resource, HTTP) THEN resource
        ELSE IF StartsWith(resource, <<"/">>)
        THEN protocol \o <<":", "/", "/">> \o base_hostname \o resource
        ELSE IF StartsWith(resource, <<"/", "/">>) THEN protocol \o <<":">> \o resource
        ELSE BasePath(base_url) \o resource

ResourceUrl(resource, base_url) ==
    LET protocol == IF UrlScheme(base_url) # <<>> THEN UrlScheme(base_url) ELSE HTTP
        base_hostname == UrlNetloc(base_url)
    IN  IF StartsWith(resource, HTTP) THEN resource
        ELSE IF StartsWith(resource, <<"/", "/">>) THEN protocol \o <<":">> \o resource
        ELSE IF StartsWith(resource, <<"/">>)
        THEN protocol \o <<":", "/", "/">> \o base_hostname \o resource
        ELSE BasePath(base_url) \o resource

\* lines 138-165: one thread per value of all_resources that is not skipped;
\* a thread is started with the resolved URL alone (resource is kept beside
\* it as a history field)
RECURSIVE ThreadsFor(_, _)
ThreadsFor(resources, base_url) ==
    IF Len(resources) = 0 THEN <<>>
    ELSE LET resource == Head(resources)
             later == ThreadsFor(Tail(resources), base_url)
         IN  IF IsSkipped(resource) THEN later
             ELSE <<[resource |-> resource, url |-> ResourceUrl(resource, base_url)]>> \o later

\* the href/src pattern matches of a page: the links of its body
RECURSIVE AttributeValues(_)
AttributeValues(html_content) ==
    IF Len(html_content) = 0 THEN <<>>
    ELSE (IF Head(html_content).k = "body" THEN Head(html_content).links ELSE <<>>)
            \o AttributeValues(Tail(html_content))

prefetch_resources(html_content, base_url) ==
    ThreadsFor(all_resources(AttributeValues(html_content)), base_url)

(***************************************************************************)
(* Specification of the Prefetch Scheduler on its own: every list of at    *)
(* most MaxLinks attribute values of LinkValues, in a page served from     *)
(* every base URL the handler can pass.  The patterns match one or more    *)
(* characters, so no attribute value is empty.                             *)
(***************************************************************************)
LinkValues ==
    {<<"#">>, <<"#", "t">>, <<"/">>, <<"l">>, <<"/", "l">>,
     <<"/", "/", "b", "/", "l">>, <<"h", "t", "t", "p", ":", "/", "/", "a", ":", "8", "0", "/", "l">>,
     <<"j", "a", "v", "a", "s", "c", "r", "i", "p", "t", ":", "v">>}

BaseTargets == Targets \cup {<<"a", ":", "8", "/", "d", "/", "p">>}

RECURSIVE ListsUpTo(_)
ListsUpTo(n) ==
    IF n = 0 THEN {<<>>}
    ELSE LET shorter == ListsUpTo(n - 1)
         IN  shorter \cup {Append(s, v) : s \in {t \in shorter : Len(t) = n - 1}, v \in LinkValues}

LinksInit ==
    /\ lValues \in ListsUpTo(MaxLinks)
    /\ lBase \in {FullUrl(target) : target \in BaseTargets}
    /\ lOut = NoResult
    /\ ResolveIdle
    /\ FreshIdle
    /\ ServerIdle
    /\ clock = 0 /\ files = <<>> /\ handlers = [c \in Clients |-> NewHandler]

Schedule ==
    /\ lOut = NoResult
    /\ lOut' = [kind |-> "threads", started |-> ThreadsFor(all_resources(lValues), lBase)]
    /\ UNCHANGED <<lValues, lBase, rvars, fvars, pvars, svars>>

SpecLinks == LinksInit /\ [][Schedule]_vars

(***************************************************************************)
(* The proxy with its accept loop and its prefetch threads.  Connection 1  *)
(* is waiting to be accepted; the other connections are being served:     *)
(* their handlers have relayed a plain page for target b and are about to  *)
(* open its cache file.                                                    *)
(***************************************************************************)
PlainTarget == <<"b">>

IdleHandler == [NewHandler EXCEPT !.pc = "idle", !.client_socket = "none"]

ServingHandler ==
    [NewHandler EXCEPT !.pc = "open_cache", !.request = PlainTarget,
                       !.response = PlainPage, !.sent = PlainPage, !.server_socket = "open"]

PrefetchInit ==
    /\ clock = 0
    /\ files = <<>>
    /\ handlers = [c \in Clients |-> IF c = 1 THEN IdleHandler ELSE ServingHandler]
    /\ proxy_socket = "listening"
    /\ tasks = <<>>
    /\ ResolveIdle
    /\ FreshIdle
    /\ LinksIdle

\* lines 424-425: except Exception in the accept loop: the error is printed
\* and the loop goes on
AfterAcceptError_breaks(socket) == "closed"

AfterAcceptError(socket) == socket

\* lines 416-422: accept a connection and start its handler thread
Accept(c) ==
    /\ proxy_socket = "listening"
    /\ handlers[c].pc = "idle"
    /\ \/ /\ handlers' = [handlers EXCEPT ![c] = NewHandler]
          /\ UNCHANGED proxy_socket
       \/ \* accept raises: no connection, no thread
          /\ handlers' = [handlers EXCEPT ![c] = [@ EXCEPT !.pc = "dropped"]]
          /\ proxy_socket' = AfterAcceptError(proxy_socket)
       \/ \* Thread.start raises: the accepted connection gets no handler
          /\ handlers' = [handlers EXCEPT ![c] =
                             [@ EXCEPT !.pc = "dropped", !.client_socket = "open"]]
          /\ proxy_socket' = AfterAcceptError(proxy_socket)
    /\ UNCHANGED <<clock, files, tasks, rvars, fvars, lvars>>

\* lines 182-187: int(port) of a netloc with a colon
TaskPortParses(url) ==
    LET hostname == UrlNetloc(url)
    IN  Contains(hostname, <<":">>) => IntParses(SplitTail(hostname, <<":">>))

\* a prefetch_resource thread: its argument, its position, its locals, its
\* socket and how it ended.  A started thread has parsed its url (lines
\* 174-187): it is about to connect, or int(port) has raised and it is over.
NewTask(url) ==
    IF TaskPortParses(url)
    THEN [url |-> url, pc |-> "connect", response |-> <<>>, client_socket |-> "none",
          outcome |-> ""]
    ELSE [url |-> url, pc |-> "done", response |-> <<>>, client_socket |-> "none",
          outcome |-> "error"]

\* the threads a handler's prefetch_resources thread has started, by the
\* handler and the position of the resource in all_resources
TaskIds == Clients \X (1..Len(PageLinks))

\* lines 111-165: the prefetch_resources thread of handler c runs
Dispatch(c) ==
    LET call == handlers[c].prefetch
        started == prefetch_resources(call.html_content, call.base_url)
    IN  /\ call.kind = "prefetch_resources"
        /\ tasks' = [t \in DOMAIN tasks \cup {<<c, i>> : i \in 1..Len(started)} |->
                        IF t \in DOMAIN tasks THEN tasks[t] ELSE NewTask(started[t[2]].url)]
        /\ handlers' = [handlers EXCEPT ![c].prefetch.kind = "dispatched"]
        /\ UNCHANGED <<clock, files, proxy_socket, rvars, fvars, lvars>>

\* finally: client_socket.close(), and the end of the thread
TaskEnds(task, outcome) ==
    [task EXCEPT !.pc = "done", !.outcome = outcome, !.response = <<>>,
                 !.client_socket = IF @ = "open" THEN "closed" ELSE @]

\* lines 189-211: connect, send the request, read to the end of the stream;
\* every socket call gives up after 5 seconds
PrefetchFetch(t) ==
    /\ t \in DOMAIN tasks
    /\ tasks[t].pc = "connect"
    /\ \/ \* connect, sendall or recv raises or times out
          tasks' = [tasks EXCEPT ![t] =
                       TaskEnds([@ EXCEPT !.client_socket = "open"], "error")]
       \/ \E response \in OriginResponses :
             tasks' = [tasks EXCEPT ![t] =
                 IF response = <<>>
                 THEN \* if response: nothing is stored
                      TaskEnds([@ EXCEPT !.client_socket = "open"], "empty")
                 ELSE [@ EXCEPT !.pc = "open_cache", !.response = response,
                                !.client_socket = "open"]]
    /\ UNCHANGED <<clock, files, handlers, proxy_socket, rvars, fvars, lvars>>

\* lines 214-215: open(cache_filename, 'wb')
PrefetchOpen(t) ==
    /\ t \in DOMAIN tasks
    /\ tasks[t].pc = "open_cache"
    /\ \/ /\ files' = WriteFile(files, generate_cache_filename(tasks[t].url), <<>>)
          /\ tasks' = [tasks EXCEPT ![t].pc = "write_cache"]
       \/ \* open raises (OSError)
          /\ tasks' = [tasks EXCEPT ![t] = TaskEnds(@, "error")]
          /\ UNCHANGED files
    /\ UNCHANGED <<clock, handlers, proxy_socket, rvars, fvars, lvars>>

\* line 216: f.write(response)
PrefetchWrite(t) ==
    /\ t \in DOMAIN tasks
    /\ tasks[t].pc = "write_cache"
    /\ files' = WriteFile(files, generate_cache_filename(tasks[t].url), tasks[t].response)
    /\ tasks' = [tasks EXCEPT ![t].pc = "stamp"]
    /\ UNCHANGED <<clock, handlers, proxy_socket, rvars, fvars, lvars>>

\* lines 218-232: the timestamp pass, then the finally clause
PrefetchStamp(t) ==
    LET cache_filename == generate_cache_filename(tasks[t].url)
    IN  /\ t \in DOMAIN tasks
        /\ tasks[t].pc = "stamp"
        /\ IF ~Decodes(files[cache_filename])
           THEN /\ tasks' = [tasks EXCEPT ![t] = TaskEnds(@, "error")]
                /\ UNCHANGED files
           ELSE /\ files' = WriteFile(files, cache_filename,
                                      AddTimestamp(files[cache_filename], clock))
                /\ tasks' = [tasks EXCEPT ![t] = TaskEnds(@, "stored")]
        /\ UNCHANGED <<clock, handlers, proxy_socket, rvars, fvars, lvars>>

TaskStep(t) == PrefetchFetch(t) \/ PrefetchOpen(t) \/ PrefetchWrite(t) \/ PrefetchStamp(t)

PrefetchNext ==
    \/ \E c \in Clients : Accept(c)
    \/ \E c \in Clients : Receive(c)
    \/ \E c \in Clients : CheckCache(c)
    \/ \E c \in Clients : Fetch(c)
    \/ \E c \in Clients : OpenCache(c)
    \/ \E c \in Clients : WriteCache(c)
    \/ \E c \in Clients : StampCache(c)
    \/ \E c \in Clients : Dispatch(c)
    \/ \E t \in TaskIds : PrefetchFetch(t)
    \/ \E t \in TaskIds : PrefetchOpen(t)
    \/ \E t \in TaskIds : PrefetchWrite(t)
    \/ \E t \in TaskIds : PrefetchStamp(t)
    \/ Tick

SpecPrefetch == PrefetchInit /\ [][PrefetchNext]_vars

\* the scheduler runs every started thread: a prefetch_resource thread that
\* can take a step takes it in the end (its socket calls time out)
SpecPrefetchFair ==
    /\ SpecPrefetch
    /\ \A t \in TaskIds : WF_vars(TaskStep(t))

(***************************************************************************)
(* Properties.  The predicates of this section are stated on the data      *)
(* alone and do not use the operators that model the code's decisions.     *)
(***************************************************************************)
\* the headers an HTTP response carries: its header lines up to the blank line
EndsLine(token) == token.k \in {"CRLF", "LF"}

RECURSIVE HeaderLinesOf(_, _)
HeaderLinesOf(lines, headers) ==
    IF Len(lines) = 0 \/ (Len(lines) >= 2 /\ EndsLine(lines[1]) /\ EndsLine(lines[2])) THEN headers
    ELSE HeaderLinesOf(Tail(lines),
            IF Head(lines).k = "header"
            THEN [headers EXCEPT ![Head(lines).name] = Head(lines).value]
            ELSE headers)

ResponseHeaders(response) == HeaderLinesOf(response, NoHeaders)

HasDirective(headers, d) ==
    /\ headers["Cache-Control"].kind = "cc"
    /\ \E i \in 1..Len(headers["Cache-Control"].ds) : headers["Cache-Control"].ds[i].d = d

\* the Cache-Control value has a max-age=M directive, and no other max-age=<digits>
HasMaxAge(headers, M) ==
    /\ headers["Cache-Control"].kind = "cc"
    /\ \E i \in 1..Len(headers["Cache-Control"].ds) :
          headers["Cache-Control"].ds[i] = [d |-> "max-age", n |-> M]
    /\ \A i \in 1..Len(headers["Cache-Control"].ds) :
          headers["Cache-Control"].ds[i].d = "max-age" => headers["Cache-Control"].ds[i].n = M

NoStoreOrNoCache(headers) == HasDirective(headers, "no-store") \/ HasDirective(headers, "no-cache")

\* handler c fetched a response from the origin and completed the cache write
Persisted(c) == handlers[c].pc = "done" /\ handlers[c].outcome = "relayed"

\* handler c takes its cache lookup step
LooksUp(c) == handlers[c].pc = "check_cache" /\ handlers'[c].pc # "check_cache"

\* C1: after a first request was fetched from the origin and persisted, with
\* a response carrying Cache-Control: max-age=N and no Expires, a second
\* identical request received after that and looked up less than N seconds
\* later (the clock has not yet reached N, and no other handler is at work)
\* is answered from the Cache Store and opens no origin connection.
C1_SecondRequestFromCache ==
    [][\A c1, c2 \in Clients :
          ( /\ c1 # c2
            /\ Persisted(c1)
            /\ HasSeparator(handlers[c1].response)
            /\ ~Has(ResponseHeaders(handlers[c1].response), "Expires")
            /\ ~NoStoreOrNoCache(ResponseHeaders(handlers[c1].response))
            /\ \E N \in 1..MaxAge :
                  HasMaxAge(ResponseHeaders(handlers[c1].response), N) /\ clock < N
            /\ handlers[c2].request = handlers[c1].request
            /\ c1 \in handlers[c2].finished_before
            /\ \A o \in Clients \ {c1, c2} : handlers[o].pc = "accept"
            /\ LooksUp(c2) )
          => /\ handlers'[c2].use_cache
             /\ handlers'[c2].pc # "fetch"
             /\ handlers'[c2].server_socket = "none"]_vars

\* C2: round trip of the Cache Store: once the write of a raw response that
\* contains a head/body separator has completed, the headers read back from
\* the entry contain every header of the response with its value, and a
\* numeric cache-timestamp.
C2_RoundTrip ==
    \A c \in Clients :
        LET h == handlers[c]
            name == CacheFileOf(h.request)
        IN  ( /\ Persisted(c)
              /\ HasSeparator(h.response)
              /\ files[name] \in {AddTimestamp(h.response, t) : t \in 0..clock} )
            => LET read == extract_headers_from_cache(files[name])
                   sent == ResponseHeaders(h.response)
               IN  /\ \A n \in HeaderNames : Has(sent, n) => read[n] = sent[n]
                   /\ read["cache-timestamp"].kind = "num"

\* C3: the dispatcher writes stored bytes back to a client only when an entry
\* exists for the request's cache key and the Freshness Evaluator returned
\* valid for the headers of that entry; an existing entry whose headers
\* contain neither Expires nor Cache-Control is never served, the request
\* goes to the origin.
C3_ServeOnlyValid ==
    [][\A c \in Clients :
          LooksUp(c) =>
            LET name == CacheFileOf(handlers[c].request)
            IN  /\ (handlers'[c].use_cache \/ handlers'[c].sent # <<>>)
                     => /\ name \in DOMAIN files
                        /\ is_cache_valid(extract_headers_from_cache(files[name]), clock) = "True"
                        /\ handlers'[c].sent \in {<<>>, files[name]}
                /\ ( /\ name \in DOMAIN files
                     /\ ~Has(ResponseHeaders(files[name]), "Expires")
                     /\ ~Has(ResponseHeaders(files[name]), "Cache-Control") )
                     => /\ handlers'[c].pc = "fetch"
                        /\ ~handlers'[c].use_cache
                        /\ handlers'[c].sent = <<>>]_vars

\* C3 witness: a handler found an entry without Expires and Cache-Control
\* and is on its way to the origin
C3_Witness ==
    \E c \in Clients :
        /\ handlers[c].pc = "fetch"
        /\ handlers[c].cache_exists
        /\ files[CacheFileOf(handlers[c].request)] = PlainPage

\* C4: with an Expires header the verdict is decided by Expires alone: valid
\* exactly when the date parses and the current time is strictly before it;
\* a parse failure gives invalid whatever Cache-Control says.
C4_ExpiresAlone ==
    (fOut # "none" /\ Has(fHeaders, "Expires")) =>
        /\ fOut \in {"True", "False"}
        /\ (fOut = "True") <=> (fHeaders["Expires"].kind = "date" /\ fNow < fHeaders["Expires"].t)

\* C5 as stated: a Cache-Control value with no-store (or no-cache) alongside
\* max-age is invalid for every timestamp, every time and every other header.
C5_NoStoreAlwaysInvalid ==
    ( /\ fOut # "none"
      /\ NoStoreOrNoCache(fHeaders)
      /\ HasDirective(fHeaders, "max-age") )
    => fOut = "False"

\* C5 amended: a mapping without an Expires header whose Cache-Control value
\* has no-store (or no-cache) alongside max-age is invalid for every
\* timestamp, every time and every other header.
C5_NoStoreInvalidWithoutExpires ==
    ( /\ fOut # "none"
      /\ ~Has(fHeaders, "Expires")
      /\ NoStoreOrNoCache(fHeaders)
      /\ HasDirective(fHeaders, "max-age") )
    => fOut = "False"

\* C5 witness: no-store decides: the entry is within its max-age
C5_Witness ==
    /\ fOut = "False"
    /\ ~Has(fHeaders, "Expires")
    /\ HasDirective(fHeaders, "no-store")
    /\ ~HasDirective(fHeaders, "no-cache")
    /\ fHeaders["cache-timestamp"].kind = "num"
    /\ \E M \in 1..MaxAge :
          HasMaxAge(fHeaders, M) /\ fNow - fHeaders["cache-timestamp"].t < M

\* C6: without Expires, with max-age=M, no no-cache/no-store and a numeric
\* cache-timestamp T, the verdict is valid exactly when now - T < M; without
\* a max-age directive or without a cache-timestamp it is invalid.
C6_MaxAgeBoundary ==
    ( /\ fOut # "none"
      /\ ~Has(fHeaders, "Expires")
      /\ Has(fHeaders, "Cache-Control")
      /\ ~NoStoreOrNoCache(fHeaders) )
    => /\ \A M \in 0..MaxAge :
            (HasMaxAge(fHeaders, M) /\ fHeaders["cache-timestamp"].kind = "num")
                => ((fOut = "True") <=> (fNow - fHeaders["cache-timestamp"].t < M))
       /\ (~HasDirective(fHeaders, "max-age") \/ ~Has(fHeaders, "cache-timestamp"))
            => fOut = "False"

\* C6 witness: an entry of age M - 1 is valid
C6_Witness ==
    /\ fOut = "True"
    /\ ~Has(fHeaders, "Expires")
    /\ ~NoStoreOrNoCache(fHeaders)
    /\ fHeaders["cache-timestamp"].kind = "num"
    /\ \E M \in 1..MaxAge :
          HasMaxAge(fHeaders, M) /\ fNow - fHeaders["cache-timestamp"].t = M - 1

\* C7: an unparseable freshness signal never propagates as an error: the
\* evaluator returns a verdict for every mapping, and the verdict is invalid
\* when the Expires value, or without Expires the cache-timestamp value,
\* does not parse.
C7_UnparseableIsInvalid ==
    fOut # "none" =>
        /\ fOut \in {"True", "False"}
        /\ fHeaders["Expires"].kind = "text" => fOut = "False"
        /\ (~Has(fHeaders, "Expires") /\ fHeaders["cache-timestamp"].kind = "text")
             => fOut = "False"

\* C8: for every scheme-stripped target the resolved port is an integer in
\* 1..65535, equal to 80 when the target has no port token or the token is
\* not an integer, and the path starts with "/" ("/" alone when the target
\* has no "/").
C8_ResolvedTarget ==
    (rOut # NoResult /\ ~Contains(rUrl, <<":", "/", "/">>)) =>
        LET hostport == SplitHead(rUrl, <<"/">>)
        IN  /\ rOut.port \in 1..65535
            /\ (~Contains(hostport, <<":">>) \/ ~IntParses(SplitTail(hostport, <<":">>)))
                 => rOut.port = 80
            /\ Len(rOut.path) >= 1 /\ rOut.path[1] = "/"
            /\ ~Contains(rUrl, <<"/">>) => rOut.path = <<"/">>

\* C9: a reader of a cache key never obtains a partially written entry:
\* whenever a handler reads the entry of its key, the content it reads is
\* not empty and has a head/body separator.
C9_ReadersSeeComplete ==
    [][\A c \in Clients :
          (LooksUp(c) /\ CacheFileOf(handlers[c].request) \in DOMAIN files)
            => /\ files[CacheFileOf(handlers[c].request)] # <<>>
               /\ HasSeparator(files[CacheFileOf(handlers[c].request)])]_vars

\* C10: every client handler that has finished, however it finished, has
\* closed its client connection.
C10_ClientClosed ==
    \A c \in Clients : handlers[c].pc = "done" => handlers[c].client_socket = "closed"

\* C10 witness: one handler failed after it had relayed the response, while
\* another returned on an empty request line
C10_Witness ==
    \E c1, c2 \in Clients :
        /\ handlers[c1].pc = "done" /\ handlers[c1].outcome = "error"
        /\ handlers[c1].sent # <<>>
        /\ handlers[c2].pc = "done" /\ handlers[c2].outcome = "empty"

\* C12 as stated: whenever a handler ends in an internal failure, storage
\* failures included, the client has received no byte of a response and its
\* connection is closed.
C12_NoBytesOnAnyFailure ==
    \A c \in Clients :
        (handlers[c].pc = "done" /\ handlers[c].outcome = "error")
            => (handlers[c].client_socket = "closed" /\ handlers[c].sent = <<>>)

\* C12 amended: a handler that fails before it relays (reading the request,
\* the cache lookup, connecting to the origin, talking to the origin) leaves
\* the client with a closed connection and no byte; a handler that fails
\* while it persists the response (open, timestamp pass) has already relayed
\* what the origin sent, in full, and closes the connection all the same.
C12_NoBytesBeforeRelay ==
    \A c \in Clients :
        (handlers[c].pc = "done" /\ handlers[c].outcome = "error")
            => /\ handlers[c].client_socket = "closed"
               /\ handlers[c].failed_at \in {"request", "lookup", "connect", "origin"}
                      => handlers[c].sent = <<>>
               /\ handlers[c].failed_at \in {"open", "decode"}
                      => handlers[c].sent \in {FreshPage, PlainPage, Image, <<>>}

C12_Witness ==
    \E c, o \in Clients :
        /\ handlers[c].pc = "done" /\ handlers[c].failed_at = "origin"
        /\ handlers[c].sent = <<>> /\ handlers[c].client_socket = "closed"
        /\ handlers[o].pc = "done" /\ handlers[o].failed_at = "open"
        /\ handlers[o].sent = FreshPage /\ handlers[o].client_socket = "closed"

C18_OriginConnectionClosed ==
    \A c \in Clients :
        handlers[c].pc = "done" => handlers[c].server_socket # "open"

\* C20: a handler that received zero bytes from the origin does not change
\* a complete entry stored under its key.
C20_EmptyFetchKeepsEntry ==
    [][\A c \in Clients :
          LET cache_filename == CacheFileOf(handlers[c].request)
          IN  (/\ handlers[c].pc \in {"open_cache", "write_cache", "stamp"}
               /\ handlers[c].response = <<>>
               /\ handlers'[c] # handlers[c]
               /\ cache_filename \in DOMAIN files
               /\ files[cache_filename] \in {FreshPage, PlainPage, Image})
                  => files'[cache_filename] = files[cache_filename]]_vars

\* a handler that has an origin fetch for its key under way
InFlight(c) == handlers[c].pc \in {"fetch", "open_cache", "write_cache", "stamp"}

\* C16: fetches for one key are not coalesced.  A handler whose lookup is
\* not answered from the cache goes on to its own origin fetch even while
\* another handler has a fetch for the same key under way; it neither waits
\* for that fetch nor fails.
C16_NoCoalescing ==
    [][\A c, o \in Clients :
          (/\ c # o
           /\ LooksUp(c)
           /\ InFlight(o)
           /\ CacheFileOf(handlers[o].request) = CacheFileOf(handlers[c].request)
           /\ handlers'[c].outcome # "error")
              => handlers'[c].pc = "fetch"]_vars

\* two handlers for one key have both opened an origin connection, both
\* received a response and both written it to the entry
C16_Witness ==
    \E c, o \in Clients :
        /\ c # o
        /\ CacheFileOf(handlers[o].request) = CacheFileOf(handlers[c].request)
        /\ handlers[c].pc = "stamp" /\ handlers[o].pc = "stamp"
        /\ handlers[c].server_socket = "open" /\ handlers[o].server_socket = "open"
        /\ handlers[c].response # <<>> /\ handlers[o].response # <<>>
        /\ handlers[c].response # handlers[o].response

\* C14: the threads one prefetch pass starts have pairwise different
\* resolved URLs.
C14_OneTaskPerUrl ==
    lOut.kind = "threads"
        => \A i, j \in 1..Len(lOut.started) :
              lOut.started[i].url = lOut.started[j].url => i = j

\* s begins with prefix
HasPrefix(s, prefix) == Len(s) >= Len(prefix) /\ SubSeq(s, 1, Len(prefix)) = prefix

\* the host part of a base URL http://host/...: what stands between the
\* seventh character and the next slash
BaseHostOf(base) ==
    SubSeq(base, 8, (CHOOSE k \in 8..Len(base) :
                        base[k] = "/" /\ \A i \in 8..(k - 1) : base[i] # "/") - 1)

\* a base URL without its last path segment: up to its last slash
BaseDirectoryOf(base) ==
    SubSeq(base, 1, CHOOSE k \in 1..Len(base) :
                        base[k] = "/" /\ \A i \in (k + 1)..Len(base) : base[i] # "/")

\* C15: no thread is started for a javascript: value, a bare # or an empty
\* value.  Every other value gets threads, each with the URL of the first
\* case that matches: an http prefix leaves the value as it is; a // prefix
\* gives the base scheme (http), a colon and the value; a / prefix gives
\* http://, the base host and the value; anything else gives the base URL
\* with its last path segment replaced by the value.
C15_Resolution ==
    lOut.kind = "threads"
        => \A n \in 1..Len(lValues) :
              LET v == lValues[n]
                  threads == {i \in 1..Len(lOut.started) : lOut.started[i].resource = v}
                  expected ==
                      IF HasPrefix(v, <<"h", "t", "t", "p">>) THEN v
                      ELSE IF HasPrefix(v, <<"/", "/">>) THEN <<"h", "t", "t", "p", ":">> \o v
                      ELSE IF HasPrefix(v, <<"/">>)
                      THEN <<"h", "t", "t", "p", ":", "/", "/">> \o BaseHostOf(lBase) \o v
                      ELSE BaseDirectoryOf(lBase) \o v
              IN  IF HasPrefix(v, <<"j", "a", "v", "a", "s", "c", "r", "i", "p", "t", ":">>) \/ v = <<"#">> \/ v = <<>>
                  THEN threads = {}
                  ELSE /\ threads # {}
                       /\ \A i \in threads : lOut.started[i].url = expected

C15_Witness ==
    /\ lBase = <<"h", "t", "t", "p", ":", "/", "/", "a", ":", "8", "/", "d", "/", "p">>
    /\ lValues = <<<<"l">>, <<"j", "a", "v", "a", "s", "c", "r", "i", "p", "t", ":", "v">>>>
    /\ lOut.kind = "threads"
    /\ lOut.started = <<[resource |-> <<"l">>, url |-> <<"h", "t", "t", "p", ":", "/", "/", "a", ":", "8", "/", "d", "/", "l">>]>>

\* the threads that fail in a step: a handler whose exception handler runs,
\* a connection the accept loop loses, a prefetch thread that gives up
HandlerFails(c) == handlers[c].outcome # "error" /\ handlers'[c].outcome = "error"

AcceptFails(c) == handlers[c].pc = "idle" /\ handlers'[c].pc = "dropped"

TaskFails(t) ==
    t \in DOMAIN tasks /\ tasks[t].outcome # "error" /\ tasks'[t].outcome = "error"

\* C11: a failure stays with the thread it happens in.  The accept loop is
\* listening in every state and can accept every waiting connection; a step
\* in which a handler fails, or the accept of a connection fails, changes
\* no other handler and no prefetch thread; a step in which a prefetch
\* thread fails changes no handler and no other prefetch thread.
C11_FailureIsolated ==
    /\ [](/\ proxy_socket = "listening"
          /\ \A c \in Clients : handlers[c].pc = "idle" => ENABLED Accept(c))
    /\ [][\A c \in Clients :
             (HandlerFails(c) \/ AcceptFails(c))
                => /\ proxy_socket' = "listening"
                   /\ tasks' = tasks
                   /\ \A o \in Clients \ {c} : handlers'[o] = handlers[o]]_vars
    /\ [][\A t \in TaskIds :
             TaskFails(t)
                => /\ proxy_socket' = "listening"
                   /\ handlers' = handlers
                   /\ DOMAIN tasks' = DOMAIN tasks
                   /\ \A u \in DOMAIN tasks \ {t} : tasks'[u] = tasks[u]]_vars

\* one handler has failed, one prefetch thread has failed, and beside them
\* a handler has relayed its page and a prefetch thread has stored its entry
C11_Witness ==
    /\ proxy_socket = "listening"
    /\ \E c, o \in Clients :
          /\ handlers[c].outcome = "error" /\ handlers[c].failed_at = "open"
          /\ handlers[o].outcome = "relayed" /\ handlers[o].prefetch.kind = "dispatched"
    /\ \E t, u \in DOMAIN tasks :
          /\ tasks[t].outcome = "error"
          /\ tasks[u].outcome = "stored"

\* C17: once a prefetch thread has stored the entry of its URL u, the file
\* a client request for u looks up exists.
C17_PrefetchedEntryFound ==
    \A t \in DOMAIN tasks :
        tasks[t].outcome = "stored" => CacheFileOf(tasks[t].url) \in DOMAIN files

\* the distinct href and src values of the page handler c handed over
ValuesOfPage(c) ==
    IF handlers[c].prefetch.kind = "none" THEN {}
    ELSE UNION {{token.links[i] : i \in 1..Len(token.links)} :
                   token \in {handlers[c].prefetch.html_content[n] :
                                 n \in 1..Len(handlers[c].prefetch.html_content)}}

TasksOf(c) == {t \in DOMAIN tasks : t[1] = c}

\* C19: prefetch is finite and one level deep.  A request has at most as
\* many prefetch threads as its page has distinct href and src values; a
\* step of a prefetch thread starts no thread, a started thread is never
\* dropped or started again, a finished one never runs again; and from some
\* point on every started thread has finished.
C19_PrefetchBounded ==
    /\ [](\A c \in Clients : Cardinality(TasksOf(c)) =< Cardinality(ValuesOfPage(c)))
    /\ [][\A t \in DOMAIN tasks :
             /\ t \in DOMAIN tasks'
             /\ tasks'[t].url = tasks[t].url
             /\ tasks'[t] # tasks[t]
                   => /\ DOMAIN tasks' = DOMAIN tasks
                      /\ tasks[t].pc # "done"
                      /\ tasks'[t].pc # "connect"]_vars
    /\ <>[](\A t \in DOMAIN tasks : tasks[t].pc = "done")

\* a page with three attribute values, two of them distinct, has led to two
\* prefetch threads, and both have finished
C19_Witness ==
    \E c \in Clients :
        /\ Len(AttributeValues(handlers[c].response)) = 3
        /\ Cardinality(ValuesOfPage(c)) = 2
        /\ Cardinality(TasksOf(c)) = 2
        /\ \A t \in TasksOf(c) : tasks[t].pc = "done"
        /\ \E t \in TasksOf(c) : tasks[t].outcome = "stored"

====
